---- MODULE Spec2Model ----
(***************************************************************************)
(* The Org writer of go-org (org/org.go): the recursive, variant-          *)
(* dispatching renderer that turns a parsed document tree back into Org    *)
(* text.                                                                   *)
(*                                                                         *)
(* Strings are sequences of one-character strings, so that len, Split,     *)
(* TrimPrefix and Repeat are computed as the Go code computes them (one    *)
(* element per byte).  OrgWriter objects live in a heap, `writers`: a      *)
(* *OrgWriter is an index into it, and every handler takes the runtime     *)
(* state st = [ws |-> heap, panicked |-> BOOLEAN] and the receiver w and   *)
(* returns the runtime state after the call.                               *)
(***************************************************************************)
EXTENDS Naturals, Integers, Sequences, FiniteSets, TLC

VARIABLES
    writers,    \* the heap of OrgWriter objects; writers[1] is the document's
    panicked,   \* TRUE once a panic has aborted the render
    stack,      \* the open writeListItem calls, outermost first
    pc,         \* "before", then "body": dispatching nodes, then "done"
    budget,     \* how many more nodes the input tree may still hold
    last        \* the call that produced this state: op, receiver, argument
                \* and the heap it started from

vars == <<writers, panicked, stack, pc, budget, last>>

----------------------------------------------------------------------------
(* Bounds of the model *)

\* what the input holds per behaviour: node sequences handed to writeNodes,
\* list items stepped through, and the footnote table
MaxNodes == 2

(* Program constants *)

\* NewOrgWriter: TagsColumn: 77
DefaultTagsColumn == 77

----------------------------------------------------------------------------
(* strings *)

NL == "\n"
SP == " "

RECURSIVE Repeat(_, _)
\* strings.Repeat(s, n), n >= 0
Repeat(s, n) == IF n = 0 THEN <<>> ELSE s \o Repeat(s, n - 1)

RECURSIVE Join(_, _)
\* strings.Join(elems, sep)
Join(elems, sep) ==
    IF elems = <<>> THEN <<>>
    ELSE IF Len(elems) = 1 THEN elems[1]
    ELSE elems[1] \o sep \o Join(Tail(elems), sep)

RECURSIVE SplitAcc(_, _, _)
SplitAcc(s, c, cur) ==
    IF s = <<>> THEN <<cur>>
    ELSE IF Head(s) = c THEN <<cur>> \o SplitAcc(Tail(s), c, <<>>)
    ELSE SplitAcc(Tail(s), c, Append(cur, Head(s)))

\* strings.Split(s, c) for a one-character separator: always at least one piece
Split(s, c) == SplitAcc(s, c, <<>>)

HasPrefix(s, p) == Len(p) <= Len(s) /\ SubSeq(s, 1, Len(p)) = p

\* strings.TrimPrefix(s, p): s without the leading p, or s itself
TrimPrefix(s, p) == IF HasPrefix(s, p) THEN SubSeq(s, Len(p) + 1, Len(s)) ELSE s

\* strings.ContainsAny(s, chars)
ContainsAny(s, chars) == \E i \in 1..Len(s) : s[i] \in chars

----------------------------------------------------------------------------
(* the heap of writers *)

\* NewOrgWriter(): an empty buffer, no indentation, the given tags column
NewOrgWriter(tc) == [buf |-> <<>>, indent |-> <<>>, TagsColumn |-> tc]

Panic(st) == [st EXCEPT !.panicked = TRUE]

\* w.WriteString(s): append to w's own buffer; nothing runs after a panic
WriteString(st, w, s) ==
    IF st.panicked THEN st ELSE [st EXCEPT !.ws[w].buf = @ \o s]

\* w.String()
String(st, w) == st.ws[w].buf

\* emptyClone without its line 40: the clone keeps what the receiver holds
emptyCloneKeepsBuffer(st, w) == [st EXCEPT !.ws = Append(@, st.ws[w])]

\* emptyClone: wcopy := *w; wcopy.stringBuilder = strings.Builder{}; &wcopy.
\* The clone is the object allocated last: NewestWriter(emptyClone(st, w)).
emptyClone(st, w) ==
    [st EXCEPT !.ws = Append(@, [st.ws[w] EXCEPT !.buf = <<>>])]

NewestWriter(st) == Len(st.ws)

\* liWriter.indent = ...
SetIndent(st, w, s) == [st EXCEPT !.ws[w].indent = s]

----------------------------------------------------------------------------
(* collaborators outside org.go *)

\* isRawTextBlock(name): the verbatim block kinds
RawBlockNames == { <<"S","R","C">>, <<"E","X","A","M","P","L","E">> }
isRawTextBlock(name) == name \in RawBlockNames

\* isEmptyLineParagraph(n): the paragraph standing for an empty line
isEmptyLineParagraph(n) == n.type = "Paragraph" /\ n.Children = <<>>

\* Footnotes.Ordered(): the definitions of the footnote table, in table order
Ordered(fs) == fs.Definitions

----------------------------------------------------------------------------
(* the renderers *)

RECURSIVE writeNodes(_, _, _)

emphasisOrgBorders ==
    [k \in {"_", "*", "/", "+", "~", "=", "_{}", "^{}"} |->
        CASE k = "_{}" -> << <<"_","{">>, <<"}">> >>
          [] k = "^{}" -> << <<"^","{">>, <<"}">> >>
          [] OTHER     -> << <<k>>, <<k>> >>]

writeText(st, w, t) == WriteString(st, w, t.Content)

writeEmphasis(st, w, e) ==
    IF e.Kind \notin DOMAIN emphasisOrgBorders THEN Panic(st)
    ELSE LET borders == emphasisOrgBorders[e.Kind]
             s1 == WriteString(st, w, borders[1])
             s2 == writeNodes(s1, w, e.Content)
         IN  WriteString(s2, w, borders[2])

writeLineBreak(st, w, l) ==
    WriteString(st, w, Repeat(<<NL>> \o st.ws[w].indent, l.Count))

writeExplicitLineBreak(st, w, l) ==
    WriteString(st, w, <<"\\", "\\", NL>> \o st.ws[w].indent)

\* l.Definition is a pointer: <<>> is nil, <<d>> points to d
writeFootnoteLink(st, w, l) ==
    LET s1 == WriteString(st, w, <<"[","f","n",":">> \o l.Name)
        s2 == IF l.Definition # <<>>
              THEN LET d  == l.Definition[1]
                       s3 == WriteString(s1, w, <<":">>)
                   IN  IF d.Children = <<>> \/ d.Children[1].type # "Paragraph"
                       THEN Panic(s3)
                       ELSE writeNodes(s3, w, d.Children[1].Children)
              ELSE s1
    IN  WriteString(s2, w, <<"]">>)

\* writeRegularLink that looks at the description before the autolink flag
writeRegularLinkDescriptionFirst(st, w, l) ==
    IF l.Description # <<>>
    THEN LET s1 == emptyClone(st, w)
             descriptionWriter == NewestWriter(s1)
             s2 == writeNodes(s1, descriptionWriter, l.Description[1])
             description == String(s2, descriptionWriter)
         IN  WriteString(s2, w, <<"[","[">> \o l.URL \o <<"]","[">>
                                  \o description \o <<"]","]">>)
    ELSE IF l.AutoLink THEN WriteString(st, w, l.URL)
    ELSE WriteString(st, w, <<"[","[">> \o l.URL \o <<"]","]">>)

\* l.Description is a slice that may be nil: <<>> is nil, <<ns>> holds ns
writeRegularLink(st, w, l) ==
    IF l.AutoLink THEN WriteString(st, w, l.URL)
    ELSE IF l.Description = <<>>
    THEN WriteString(st, w, <<"[","[">> \o l.URL \o <<"]","]">>)
    ELSE LET s1 == emptyClone(st, w)
             descriptionWriter == NewestWriter(s1)
             s2 == writeNodes(s1, descriptionWriter, l.Description[1])
             description == String(s2, descriptionWriter)
         IN  WriteString(s2, w, <<"[","[">> \o l.URL \o <<"]","[">>
                                  \o description \o <<"]","]">>)

writeParagraph(st, w, p) ==
    WriteString(writeNodes(st, w, p.Children), w, <<NL>>)

writeKeyword(st, w, k) ==
    WriteString(st, w, st.ws[w].indent \o <<"#","+">> \o k.Key
                         \o <<":",SP>> \o k.Value \o <<NL>>)

writeComment(st, w, c) ==
    WriteString(st, w, st.ws[w].indent \o <<"#">> \o c.Content)

writeHorizontalRule(st, w, hr) ==
    WriteString(st, w, st.ws[w].indent \o <<"-","-","-","-","-",NL>>)

\* writeHeadline with the pad computed before the separating space is added
writeHeadlinePadBeforeSpace(st, w, h) ==
    LET s0  == emptyClone(st, w)
        tmp == NewestWriter(s0)
        s1  == WriteString(s0, tmp, Repeat(<<"*">>, h.Lvl))
        s2  == IF h.Status # <<>> THEN WriteString(s1, tmp, <<SP>> \o h.Status)
               ELSE s1
        s3  == IF h.Priority # <<>>
               THEN WriteString(s2, tmp, <<SP,"[","#">> \o h.Priority \o <<"]">>)
               ELSE s2
        s4  == WriteString(s3, tmp, <<SP>>)
        s5  == writeNodes(s4, tmp, h.Title)
        hString == String(s5, tmp)
        s6  == IF Len(h.Tags) # 0
               THEN LET tString == <<":">> \o Join(h.Tags, <<":">>) \o <<":">>
                        n       == s5.ws[w].TagsColumn - Len(tString) - Len(hString)
                        hs      == hString \o <<SP>>
                    IN  IF n > 0
                        THEN WriteString(s5, w, hs \o Repeat(<<SP>>, n) \o tString)
                        ELSE WriteString(s5, w, hs \o tString)
               ELSE WriteString(s5, w, hString)
        s7  == WriteString(s6, w, <<NL>>)
        s8  == IF Len(h.Children) # 0
               THEN WriteString(s7, w, s7.ws[w].indent)
               ELSE s7
    IN  writeNodes(s8, w, h.Children)

writeHeadline(st, w, h) ==
    LET s0  == emptyClone(st, w)
        tmp == NewestWriter(s0)
        s1  == WriteString(s0, tmp, Repeat(<<"*">>, h.Lvl))
        s2  == IF h.Status # <<>> THEN WriteString(s1, tmp, <<SP>> \o h.Status)
               ELSE s1
        s3  == IF h.Priority # <<>>
               THEN WriteString(s2, tmp, <<SP,"[","#">> \o h.Priority \o <<"]">>)
               ELSE s2
        s4  == WriteString(s3, tmp, <<SP>>)
        s5  == writeNodes(s4, tmp, h.Title)
        hString == String(s5, tmp)
        s6  == IF Len(h.Tags) # 0
               THEN LET hs      == hString \o <<SP>>
                        tString == <<":">> \o Join(h.Tags, <<":">>) \o <<":">>
                        n       == s5.ws[w].TagsColumn - Len(tString) - Len(hs)
                    IN  IF n > 0
                        THEN WriteString(s5, w, hs \o Repeat(<<SP>>, n) \o tString)
                        ELSE WriteString(s5, w, hs \o tString)
               ELSE WriteString(s5, w, hString)
        s7  == WriteString(s6, w, <<NL>>)
        s8  == IF Len(h.Children) # 0
               THEN WriteString(s7, w, s7.ws[w].indent)
               ELSE s7
    IN  writeNodes(s8, w, h.Children)

RECURSIVE writeRawLines(_, _, _)
\* for _, line := range lines { w.WriteString(w.indent + line + "\n") }
writeRawLines(st, w, lines) ==
    IF lines = <<>> THEN st
    ELSE writeRawLines(
             WriteString(st, w, st.ws[w].indent \o Head(lines) \o <<NL>>),
             w, Tail(lines))

\* writeBlock that hands the children of every block to writeNodes
writeBlockDispatchRaw(st, w, b) ==
    LET s1 == WriteString(st, w, st.ws[w].indent
                  \o <<"#","+","B","E","G","I","N","_">> \o b.Name)
        s2 == IF Len(b.Parameters) # 0
              THEN WriteString(s1, w, <<SP>> \o Join(b.Parameters, <<SP>>))
              ELSE s1
        s3 == WriteString(s2, w, <<NL>>)
        s4 == writeNodes(s3, w, b.Children)
    IN  WriteString(s4, w, s4.ws[w].indent
            \o <<"#","+","E","N","D","_">> \o b.Name \o <<NL>>)

writeBlock(st, w, b) ==
    LET s1 == WriteString(st, w, st.ws[w].indent
                  \o <<"#","+","B","E","G","I","N","_">> \o b.Name)
        s2 == IF Len(b.Parameters) # 0
              THEN WriteString(s1, w, <<SP>> \o Join(b.Parameters, <<SP>>))
              ELSE s1
        s3 == WriteString(s2, w, <<NL>>)
        s4 == IF isRawTextBlock(b.Name)
              THEN IF b.Children = <<>> \/ b.Children[1].type # "Text"
                   THEN Panic(s3)
                   ELSE writeRawLines(s3, w, Split(b.Children[1].Content, NL))
              ELSE writeNodes(s3, w, b.Children)
    IN  WriteString(s4, w, s4.ws[w].indent
            \o <<"#","+","E","N","D","_">> \o b.Name \o <<NL>>)

writeFootnoteDefinition(st, w, f) ==
    LET s1 == WriteString(st, w, <<"[","f","n",":">> \o f.Name \o <<"]">>)
        s2 == IF ~(Len(f.Children) >= 1 /\ isEmptyLineParagraph(f.Children[1]))
              THEN WriteString(s1, w, <<SP>>)
              ELSE s1
    IN  writeNodes(s2, w, f.Children)

RECURSIVE writeDefinitionsInlineToo(_, _, _)
\* the loop of writeFootnotes without its test of definition.Inline
writeDefinitionsInlineToo(st, w, ds) ==
    IF ds = <<>> \/ st.panicked THEN st
    ELSE writeDefinitionsInlineToo(writeNodes(st, w, <<Head(ds)>>), w, Tail(ds))

RECURSIVE writeDefinitions(_, _, _)
\* for _, definition := range fs.Ordered() { if !definition.Inline { ... } }
writeDefinitions(st, w, ds) ==
    IF ds = <<>> \/ st.panicked THEN st
    ELSE writeDefinitions(
             IF ~Head(ds).Inline THEN writeNodes(st, w, <<Head(ds)>>) ELSE st,
             w, Tail(ds))

writeFootnotes(st, w, d) ==
    LET fs == d.Footnotes
    IN  IF Len(fs.Definitions) = 0 THEN st
        ELSE writeDefinitions(
                 WriteString(st, w, <<"*",SP>> \o fs.Title \o <<NL>>),
                 w, Ordered(fs))

RECURSIVE writeAttributes(_, _, _, _)
\* for i := 0; i < len(attributes)-1; i += 2 { ... }   (i is 1-based here)
writeAttributes(st, w, attributes, i) ==
    IF ~(i < Len(attributes)) THEN st
    ELSE LET s1 == WriteString(st, w, attributes[i] \o <<SP>>)
             s2 == IF ContainsAny(attributes[i + 1], {"\t", SP})
                   THEN WriteString(s1, w, <<"\"">> \o attributes[i + 1] \o <<"\"">>)
                   ELSE WriteString(s1, w, attributes[i + 1])
         IN  writeAttributes(s2, w, attributes, i + 2)

RECURSIVE writeCaptions(_, _, _)
writeCaptions(st, w, captions) ==
    IF captions = <<>> \/ st.panicked THEN st
    ELSE LET s1 == WriteString(st, w, <<"#","+","C","A","P","T","I","O","N",":",SP>>)
             s2 == writeNodes(s1, w, Head(captions))
         IN  writeCaptions(WriteString(s2, w, <<NL>>), w, Tail(captions))

RECURSIVE writeHTMLAttributes(_, _, _)
writeHTMLAttributes(st, w, attrs) ==
    IF attrs = <<>> THEN st
    ELSE LET s1 == WriteString(st, w,
                       <<"#","+","A","T","T","R","_","H","T","M","L",":",SP>>)
             s2 == writeAttributes(s1, w, Head(attrs), 1)
         IN  writeHTMLAttributes(WriteString(s2, w, <<NL>>), w, Tail(attrs))

writeNodeWithMeta(st, w, n) ==
    LET s1 == writeCaptions(st, w, n.Meta.Caption)
        s2 == writeHTMLAttributes(s1, w, n.Meta.HTMLAttributes)
    IN  writeNodes(s2, w, <<n.Node>>)

writeList(st, w, l) == writeNodes(st, w, l.Items)

\* writeListItem, line 204: the bullet goes into the receiver's own buffer
writeListItemBullet(st, w, li) ==
    WriteString(st, w, st.ws[w].indent \o li.Bullet \o <<SP>>)

\* line 206 setting the indentation of the receiver, not of the clone
writeListItemIndentOnReceiver(st, w, liWriter, li) ==
    SetIndent(st, w, st.ws[w].indent \o Repeat(<<SP>>, Len(li.Bullet) + 1))

\* writeListItem, line 206, on the clone liWriter made on line 205
writeListItemIndent(st, w, liWriter, li) ==
    SetIndent(st, liWriter, st.ws[w].indent \o Repeat(<<SP>>, Len(li.Bullet) + 1))

\* writeListItem, line 208
writeListItemAppend(st, w, liWriter) ==
    WriteString(st, w, TrimPrefix(String(st, liWriter), st.ws[liWriter].indent))

writeListItem(st, w, li) ==
    LET s1 == writeListItemBullet(st, w, li)
        s2 == emptyClone(s1, w)
        liWriter == NewestWriter(s2)
        s3 == writeListItemIndent(s2, w, liWriter, li)
        s4 == writeNodes(s3, liWriter, li.Children)
    IN  writeListItemAppend(s4, w, liWriter)

RECURSIVE writeColumnsSpaceAfterLast(_, _, _, _)
\* writeColumns that writes the separating space after the last column too
writeColumnsSpaceAfterLast(st, w, columns, i) ==
    IF i > Len(columns) \/ st.panicked THEN st
    ELSE LET s1 == writeNodes(st, w, columns[i])
             s2 == WriteString(s1, w, <<SP,"|">>)
             s3 == IF i <= Len(columns) THEN WriteString(s2, w, <<SP>>) ELSE s2
         IN  writeColumnsSpaceAfterLast(s3, w, columns, i + 1)

RECURSIVE writeColumns(_, _, _, _)
\* for i, columnNodes := range columns { ... }   (i is 1-based here)
writeColumns(st, w, columns, i) ==
    IF i > Len(columns) \/ st.panicked THEN st
    ELSE LET s1 == writeNodes(st, w, columns[i])
             s2 == WriteString(s1, w, <<SP,"|">>)
             s3 == IF i < Len(columns) THEN WriteString(s2, w, <<SP>>) ELSE s2
         IN  writeColumns(s3, w, columns, i + 1)

writeTableColumns(st, w, columns) ==
    LET s1 == WriteString(st, w, st.ws[w].indent \o <<"|",SP>>)
        s2 == writeColumns(s1, w, columns, 1)
    IN  WriteString(s2, w, <<NL>>)

writeTableSeparator(st, w, ts) ==
    WriteString(st, w, st.ws[w].indent \o ts.Content \o <<NL>>)

writeTableHeader(st, w, th) ==
    writeNodes(writeTableColumns(st, w, th.Columns), w, <<th.Separator>>)

writeTableRow(st, w, tr) == writeTableColumns(st, w, tr.Columns)

writeTable(st, w, t) ==
    writeNodes(writeNodes(st, w, <<t.Header>>), w, t.Rows)

\* a default branch that lets a node of an unknown type pass
badNodeSkipped(st, n) == st

\* the default branch of the type switch: panic unless the node is nil
badNode(st, n) == IF n.type # "nil" THEN Panic(st) ELSE st

\* the type switch of writeNodes, for one node
writeNode(st, w, n) ==
    CASE n.type = "Comment"            -> writeComment(st, w, n)
      [] n.type = "Keyword"            -> writeKeyword(st, w, n)
      [] n.type = "NodeWithMeta"       -> writeNodeWithMeta(st, w, n)
      [] n.type = "Headline"           -> writeHeadline(st, w, n)
      [] n.type = "Block"              -> writeBlock(st, w, n)
      [] n.type = "FootnoteDefinition" -> writeFootnoteDefinition(st, w, n)
      [] n.type = "List"               -> writeList(st, w, n)
      [] n.type = "ListItem"           -> writeListItem(st, w, n)
      [] n.type = "Table"              -> writeTable(st, w, n)
      [] n.type = "TableHeader"        -> writeTableHeader(st, w, n)
      [] n.type = "TableRow"           -> writeTableRow(st, w, n)
      [] n.type = "TableSeparator"     -> writeTableSeparator(st, w, n)
      [] n.type = "Paragraph"          -> writeParagraph(st, w, n)
      [] n.type = "HorizontalRule"     -> writeHorizontalRule(st, w, n)
      [] n.type = "Text"               -> writeText(st, w, n)
      [] n.type = "Emphasis"           -> writeEmphasis(st, w, n)
      [] n.type = "LineBreak"          -> writeLineBreak(st, w, n)
      [] n.type = "ExplicitLineBreak"  -> writeExplicitLineBreak(st, w, n)
      [] n.type = "RegularLink"        -> writeRegularLink(st, w, n)
      [] n.type = "FootnoteLink"       -> writeFootnoteLink(st, w, n)
      [] OTHER -> badNode(st, n)

\* for _, n := range ns { switch n := n.(type) { ... } }
writeNodes(st, w, ns) ==
    IF ns = <<>> \/ st.panicked THEN st
    ELSE writeNodes(writeNode(st, w, Head(ns)), w, Tail(ns))

----------------------------------------------------------------------------
(* the node variants, with the fields the writer reads *)

Text(content) == [type |-> "Text", Content |-> content]
Emphasis(kind, content) == [type |-> "Emphasis", Kind |-> kind, Content |-> content]
LineBreak(count) == [type |-> "LineBreak", Count |-> count]
ExplicitLineBreak == [type |-> "ExplicitLineBreak"]
RegularLink(url, autoLink, description) ==
    [type |-> "RegularLink", URL |-> url, AutoLink |-> autoLink,
     Description |-> description]
FootnoteDefinition(name, children, inline) ==
    [type |-> "FootnoteDefinition", Name |-> name, Children |-> children,
     Inline |-> inline]
FootnoteLink(name, definition) ==
    [type |-> "FootnoteLink", Name |-> name, Definition |-> definition]
Paragraph(children) == [type |-> "Paragraph", Children |-> children]
Keyword(key, value) == [type |-> "Keyword", Key |-> key, Value |-> value]
Comment(content) == [type |-> "Comment", Content |-> content]
HorizontalRule == [type |-> "HorizontalRule"]
Headline(lvl, status, priority, title, tags, children) ==
    [type |-> "Headline", Lvl |-> lvl, Status |-> status, Priority |-> priority,
     Title |-> title, Tags |-> tags, Children |-> children]
Block(name, parameters, children) ==
    [type |-> "Block", Name |-> name, Parameters |-> parameters,
     Children |-> children]
List(items) == [type |-> "List", Items |-> items]
ListItem(bullet, children) ==
    [type |-> "ListItem", Bullet |-> bullet, Children |-> children]
TableSeparator(content) == [type |-> "TableSeparator", Content |-> content]
TableHeader(columns, separator) ==
    [type |-> "TableHeader", Columns |-> columns, Separator |-> separator]
TableRow(columns) == [type |-> "TableRow", Columns |-> columns]
Table(header, rows) == [type |-> "Table", Header |-> header, Rows |-> rows]
NodeWithMeta(captions, attributes, node) ==
    [type |-> "NodeWithMeta",
     Meta |-> [Caption |-> captions, HTMLAttributes |-> attributes],
     Node |-> node]
\* a nil Node, and a Node of a type the switch of writeNodes does not list
NilNode == [type |-> "nil"]
UnknownNode == [type |-> "Example"]
Document(title, definitions) ==
    [Footnotes |-> [Title |-> title, Definitions |-> definitions]]

----------------------------------------------------------------------------
(* the trees the writer is run on *)

tA == Text(<<"a">>)
tB == Text(<<"b","b">>)
pA == Paragraph(<<tA>>)
pB == Paragraph(<<tB>>)
pTwoLines == Paragraph(<<tA, LineBreak(1), tB>>)
pBlankLine == Paragraph(<<tA, LineBreak(2), tB>>)
fnInline == FootnoteDefinition(<<"1">>, <<pA>>, TRUE)
fnBlock == FootnoteDefinition(<<"2">>, <<pB>>, FALSE)
fnEmptyLine == FootnoteDefinition(<<"3">>, <<Paragraph(<<>>), pA>>, FALSE)
SRC == <<"S","R","C">>
QUOTE == <<"Q","U","O","T","E">>
rowAB == TableRow(<< <<tA>>, <<tB>> >>)
sepAB == TableSeparator(<<"|","-","+","-","|">>)
linkAB == RegularLink(<<"u">>, FALSE, << <<tA, Emphasis("*", <<tB>>)>> >>)
Foo(k) == <<Text(<<"F">> \o Repeat(<<"o">>, k))>>
tagsAB == << <<"a">>, <<"b">> >>

InlineNodes ==
    { tA,
      Emphasis("_{}", <<tA, Emphasis("/", <<tB>>)>>),
      ExplicitLineBreak,
      RegularLink(<<"u">>, TRUE, << <<tA>> >>),
      RegularLink(<<"u">>, FALSE, <<>>),
      linkAB,
      RegularLink(<<"u">>, FALSE, << <<>> >>),
      FootnoteLink(<<"1">>, <<>>),
      FootnoteLink(<<"1">>, <<fnInline>>),
      FootnoteLink(<<"1">>, <<FootnoteDefinition(<<"1">>, <<>>, TRUE)>>),
      FootnoteLink(<<"1">>, <<FootnoteDefinition(<<"1">>, <<tA>>, TRUE)>>),
      LineBreak(2) }

Headlines ==
    { Headline(1, <<>>, <<>>, Foo(k), tagsAB, <<>>) : k \in 2..5 }
    \cup
    { Headline(1, <<>>, <<>>, <<>>, <<>>, <<>>),
      Headline(2, <<"T","O","D","O">>, <<"A">>, <<tA, linkAB>>,
               << <<"a">> >>, <<pA, pB>>) }

Blocks ==
    { Block(SRC, << <<"s","h">>, <<"-","n">> >>,
            <<Text(<<"*","a","*",NL,"#","+","E","N","D","_",NL,SP,"b">>)>>),
      Block(SRC, <<>>, <<Text(<<>>)>>),
      Block(SRC, <<>>, <<>>),
      Block(QUOTE, << <<"x">> >>, <<pA, pTwoLines>>) }

ListItems ==
    { ListItem(<<"-">>, <<pTwoLines>>),
      ListItem(<<"-">>, <<>>),
      ListItem(<<"-">>, <<pA, pB>>),
      ListItem(<<"1",".">>, <<Keyword(<<"K">>, <<"v">>), HorizontalRule>>),
      ListItem(<<"1",".">>,
               <<pBlankLine, List(<<ListItem(<<"-">>, <<pTwoLines>>)>>)>>),
      ListItem(<<"-">>, <<Paragraph(<<Text(<<SP,SP,"a">>)>>)>>) }

Tables ==
    { TableRow(<< <<tA>> >>),
      TableRow(<< <<>>, <<tA, Emphasis("*", <<tB>>)>>, <<tB>> >>),
      TableHeader(<< <<tA>>, <<tB>> >>, sepAB),
      Table(TableHeader(<< <<tA>>, <<tB>> >>, sepAB), <<rowAB, rowAB>>) }

OtherNodes ==
    { pA, pTwoLines, Paragraph(<<>>),
      Comment(<<SP,"c",NL>>), Keyword(<<"K">>, <<"v">>),
      List(<<ListItem(<<"-">>, <<pA>>), ListItem(<<"-">>, <<pTwoLines>>)>>),
      fnBlock,
      NodeWithMeta(<< <<tA>> >>,
                   << << <<":","w">>, <<"1">>, <<":","a">>, <<"x",SP,"y">>, <<":","z">> >> >>,
                   pA) }

\* the node sequences handed to writeNodes
NodeSeqs ==
    { <<n>> : n \in InlineNodes \cup Headlines \cup Blocks \cup ListItems
                      \cup Tables \cup OtherNodes }
    \cup
    { <<NilNode, tA>>, <<UnknownNode, tA>>, <<Emphasis("!", <<tA>>), tA>>,
      <<Paragraph(<<UnknownNode, tA>>)>>, <<Paragraph(<<NilNode, tA>>)>> }

Bullets == { <<"-">>, <<"1",".">> }

Documents ==
    { Document(<<"F">>, <<>>),
      Document(<<"F">>, <<fnInline>>),
      Document(<<"F">>, <<fnInline, fnBlock>>),
      Document(<<"F">>, <<fnEmptyLine, fnInline, fnBlock>>) }

\* TagsColumn is an exported field: the default, or what the caller set
TagsColumns == { DefaultTagsColumn, 12 }

----------------------------------------------------------------------------
(* the state machine *)

St == [ws |-> writers, panicked |-> panicked]

\* the writer the dispatcher is running on: the document's, or the isolated
\* child of the innermost open list item
Cur == IF stack = <<>> THEN 1 ELSE stack[Len(stack)].liWriter

\* no list item is between its bullet and its children
Dispatching == IF stack = <<>> THEN TRUE ELSE stack[Len(stack)].line = 207

Call(op, w, arg) == [op |-> op, w |-> w, arg |-> arg, pre |-> writers]

Init ==
    /\ \E tc \in TagsColumns : writers = <<NewOrgWriter(tc)>>
    /\ panicked = FALSE
    /\ stack = <<>>
    /\ pc = "before"
    /\ budget = MaxNodes
    /\ last = [op |-> "NewOrgWriter", w |-> 1, arg |-> <<>>, pre |-> <<>>]

\* before(d): nothing is written
Before ==
    /\ pc = "before"
    /\ pc' = "body"
    /\ last' = Call("before", 1, <<>>)
    /\ UNCHANGED <<writers, panicked, stack, budget>>

\* writeNodes(ns...) on the current writer
WriteNodes ==
    /\ pc = "body" /\ ~panicked /\ Dispatching /\ budget > 0
    /\ \E ns \in NodeSeqs :
          LET st == writeNodes(St, Cur, ns)
          IN  /\ writers' = st.ws
              /\ panicked' = st.panicked
              /\ last' = Call("writeNodes", Cur, ns)
    /\ budget' = budget - 1
    /\ UNCHANGED <<stack, pc>>

\* A ListItem handed to writeNodes is written whole by WriteNodes.  The four
\* steps below run the same writeListItem line by line, its children arriving
\* one writeNodes call at a time, so that the clone liWriter is a writer of
\* the heap while it is being written: an item, once begun, can only go on
\* to its line 208.

\* writeListItem, line 204
ListItemBullet ==
    /\ pc = "body" /\ ~panicked /\ Dispatching /\ budget > 0
    /\ \E b \in Bullets :
          LET li == ListItem(b, <<>>)
          IN  /\ writers' = writeListItemBullet(St, Cur, li).ws
              /\ stack' = Append(stack, [w |-> Cur, li |-> li, liWriter |-> 0,
                                         line |-> 205])
              /\ last' = Call("writeListItem:204", Cur, <<li>>)
    /\ budget' = budget - 1
    /\ UNCHANGED <<panicked, pc>>

\* writeListItem, line 205: liWriter := w.emptyClone()
ListItemClone ==
    /\ stack # <<>> /\ stack[Len(stack)].line = 205
    /\ LET f  == stack[Len(stack)]
           st == emptyClone(St, f.w)
       IN  /\ writers' = st.ws
           /\ stack' = [stack EXCEPT ![Len(stack)] =
                           [f EXCEPT !.liWriter = NewestWriter(st), !.line = 206]]
           /\ last' = Call("emptyClone", f.w, <<>>)
    /\ UNCHANGED <<panicked, pc, budget>>

\* writeListItem, line 206: liWriter.indent = ...
ListItemIndent ==
    /\ stack # <<>> /\ stack[Len(stack)].line = 206
    /\ LET f == stack[Len(stack)]
       IN  /\ writers' = writeListItemIndent(St, f.w, f.liWriter, f.li).ws
           /\ stack' = [stack EXCEPT ![Len(stack)].line = 207]
           /\ last' = Call("writeListItem:206", f.w, f)
    /\ UNCHANGED <<panicked, pc, budget>>

\* writeListItem, line 208, once the children are written
ListItemAppend ==
    /\ ~panicked /\ stack # <<>> /\ stack[Len(stack)].line = 207
    /\ LET f == stack[Len(stack)]
       IN  /\ writers' = writeListItemAppend(St, f.w, f.liWriter).ws
           /\ stack' = SubSeq(stack, 1, Len(stack) - 1)
           /\ last' = Call("writeListItem:208", f.w, f)
    /\ UNCHANGED <<panicked, pc, budget>>

\* after(d): the footnote section, once the body is written
After ==
    /\ pc = "body" /\ ~panicked /\ stack = <<>> /\ budget > 0
    /\ \E d \in Documents :
          LET st == writeFootnotes(St, 1, d)
          IN  /\ writers' = st.ws
              /\ panicked' = st.panicked
              /\ last' = Call("after", 1, d)
    /\ pc' = "done"
    /\ budget' = budget - 1
    /\ UNCHANGED stack

Next ==
    \/ Before
    \/ WriteNodes
    \/ ListItemBullet
    \/ ListItemClone
    \/ ListItemIndent
    \/ ListItemAppend
    \/ After

Spec == Init /\ [][Next]_vars

TypeOK ==
    /\ panicked \in BOOLEAN
    /\ pc \in {"before", "body", "done"}
    /\ budget \in 0..MaxNodes

----------------------------------------------------------------------------
(* what the claims are stated with *)

\* the last step was writeNodes on the single node of the given type
LastIs(type) ==
    /\ last.op = "writeNodes"
    /\ Len(last.arg) = 1
    /\ last.arg[1].type = type

\* the receiver of the last call as it was when the call started
Receiver == last.pre[last.w]

\* what the last call appended to its receiver's buffer
Appended ==
    SubSeq(writers[last.w].buf, Len(Receiver.buf) + 1, Len(writers[last.w].buf))

AppendedOnly == HasPrefix(writers[last.w].buf, Receiver.buf)

\* the string a node sequence renders to in a writer of its own that has the
\* indentation prefix and tags column of cfg
Rendered(ns, cfg) ==
    String(writeNodes([ws |-> <<[cfg EXCEPT !.buf = <<>>]>>, panicked |-> FALSE],
                      1, ns), 1)

----------------------------------------------------------------------------
(* C1 *)

HeadlineTitleLine(h, cfg) ==
    Repeat(<<"*">>, h.Lvl)
    \o (IF h.Status # <<>> THEN <<SP>> \o h.Status ELSE <<>>)
    \o (IF h.Priority # <<>> THEN <<SP,"[","#">> \o h.Priority \o <<"]">> ELSE <<>>)
    \o <<SP>>
    \o Rendered(h.Title, cfg)

HeadlineTagString(h) == <<":">> \o Join(h.Tags, <<":">>) \o <<":">>

HeadlinePad(h, cfg) ==
    cfg.TagsColumn - Len(HeadlineTagString(h)) - Len(HeadlineTitleLine(h, cfg))

HeadlineLine(h, cfg) ==
    IF h.Tags = <<>> THEN HeadlineTitleLine(h, cfg)
    ELSE IF HeadlinePad(h, cfg) > 0
    THEN HeadlineTitleLine(h, cfg) \o Repeat(<<SP>>, HeadlinePad(h, cfg))
             \o HeadlineTagString(h)
    ELSE HeadlineTitleLine(h, cfg) \o <<SP>> \o HeadlineTagString(h)

\* C1: writeHeadline appends exactly one line: title_line + pad spaces +
\* tag_string when the headline has tags and pad = TagsColumn -
\* len(tag_string) - len(title_line) > 0 (the line is then TagsColumn long),
\* title_line + one space + tag_string when it has tags and pad <= 0, and
\* title_line alone when it has no tags; then the newline and the children.
C1_HeadlineLine ==
    (LastIs("Headline") /\ ~panicked) =>
        LET h    == last.arg[1]
            line == HeadlineLine(h, Receiver)
        IN  /\ AppendedOnly
            /\ Appended = line \o <<NL>>
                   \o (IF h.Children # <<>>
                       THEN Receiver.indent \o Rendered(h.Children, Receiver)
                       ELSE <<>>)
            /\ \A i \in 1..Len(line) : line[i] # NL
            /\ (h.Tags # <<>> /\ HeadlinePad(h, Receiver) > 0)
                   => Len(line) = Receiver.TagsColumn

\* a tagged headline was written whose pad is exactly 1
C1_Witness ==
    /\ LastIs("Headline") /\ ~panicked
    /\ last.arg[1].Tags # <<>>
    /\ HeadlinePad(last.arg[1], Receiver) = 1

----------------------------------------------------------------------------
(* C9 *)

\* C9: writeRegularLink appends the URL unchanged for an autolink (whatever
\* its description), else [[URL]] when the description is nil, else
\* [[URL][D]] with D the description rendered in an isolated child writer.
C9_RegularLinkForms ==
    LastIs("RegularLink") =>
        LET l == last.arg[1]
        IN  /\ ~panicked
            /\ AppendedOnly
            /\ Appended =
                 IF l.AutoLink THEN l.URL
                 ELSE IF l.Description = <<>>
                 THEN <<"[","[">> \o l.URL \o <<"]","]">>
                 ELSE <<"[","[">> \o l.URL \o <<"]","[">>
                          \o Rendered(l.Description[1], Receiver) \o <<"]","]">>

\* an autolink that carries a description was written after other text
C9_Witness ==
    /\ LastIs("RegularLink")
    /\ last.arg[1].AutoLink /\ last.arg[1].Description # <<>>
    /\ Receiver.buf # <<>>

----------------------------------------------------------------------------
(* C6 *)

RECURSIVE FurtherColumns(_, _)
FurtherColumns(columns, cfg) ==
    IF columns = <<>> THEN <<>>
    ELSE <<SP>> \o Rendered(Head(columns), cfg) \o <<SP,"|">>
             \o FurtherColumns(Tail(columns), cfg)

ColumnsLine(columns, cfg) ==
    cfg.indent \o <<"|",SP>> \o Rendered(columns[1], cfg) \o <<SP,"|">>
        \o FurtherColumns(Tail(columns), cfg) \o <<NL>>

\* C6: a table row or header with columns c1..cn, n >= 1, in a writer with
\* indentation prefix p is written as p + "| " + render(c1) + " |", then
\* " " + render(ci) + " |" for each further column, then one newline (a
\* header then writes its separator line); cells are not padded.
C6_TableColumns ==
    ((LastIs("TableRow") \/ LastIs("TableHeader")) /\ last.arg[1].Columns # <<>>)
        => /\ ~panicked
           /\ AppendedOnly
           /\ Appended = ColumnsLine(last.arg[1].Columns, Receiver)
                  \o (IF last.arg[1].type = "TableHeader"
                      THEN Receiver.indent \o last.arg[1].Separator.Content \o <<NL>>
                      ELSE <<>>)

\* a row of three columns was written by the indented writer of a list item
C6_Witness ==
    /\ LastIs("TableRow")
    /\ Len(last.arg[1].Columns) = 3
    /\ Receiver.indent # <<>>

----------------------------------------------------------------------------
(* C7 *)

RECURSIVE IndentAfterNewlines(_, _)
\* s with p inserted after each of its newlines
IndentAfterNewlines(s, p) ==
    IF s = <<>> THEN <<>>
    ELSE IF Head(s) = NL THEN <<NL>> \o p \o IndentAfterNewlines(Tail(s), p)
    ELSE <<Head(s)>> \o IndentAfterNewlines(Tail(s), p)

BlockBeginLine(b, cfg) ==
    cfg.indent \o <<"#","+","B","E","G","I","N","_">> \o b.Name
        \o (IF b.Parameters # <<>> THEN <<SP>> \o Join(b.Parameters, <<SP>>)
            ELSE <<>>)
        \o <<NL>>

BlockEndLine(b, cfg) ==
    cfg.indent \o <<"#","+","E","N","D","_">> \o b.Name \o <<NL>>

\* C7: a raw block is written as its BEGIN line, every line of its Text
\* child's content as prefix + line + newline with the characters unchanged
\* and in order, and its END line; any other block writes its children
\* through writeNodes between the two lines.
C7_RawBlockVerbatim ==
    (LastIs("Block") /\ ~panicked) =>
        LET b == last.arg[1]
        IN  /\ AppendedOnly
            /\ IF isRawTextBlock(b.Name)
               THEN /\ b.Children # <<>>
                    /\ b.Children[1].type = "Text"
                    /\ Appended = BlockBeginLine(b, Receiver)
                           \o Receiver.indent
                           \o IndentAfterNewlines(b.Children[1].Content,
                                                  Receiver.indent)
                           \o <<NL>>
                           \o BlockEndLine(b, Receiver)
               ELSE Appended = BlockBeginLine(b, Receiver)
                        \o Rendered(b.Children, Receiver)
                        \o BlockEndLine(b, Receiver)

\* a raw block whose content has markup and an END marker on several lines
\* was written by the indented writer of a list item
C7_Witness ==
    /\ LastIs("Block") /\ ~panicked
    /\ isRawTextBlock(last.arg[1].Name)
    /\ Len(Split(last.arg[1].Children[1].Content, NL)) = 3
    /\ Receiver.indent # <<>>

----------------------------------------------------------------------------
(* C3 *)

RECURSIVE FootnoteSection(_, _)
\* the definitions not flagged inline, rendered in table order
FootnoteSection(definitions, cfg) ==
    IF definitions = <<>> THEN <<>>
    ELSE (IF Head(definitions).Inline THEN <<>>
          ELSE Rendered(<<Head(definitions)>>, cfg))
         \o FootnoteSection(Tail(definitions), cfg)

\* C3: after() appends nothing for an empty footnote table; otherwise the
\* level-1 footnote headline once and then every definition not flagged
\* inline, in table order, and no inline definition: the text of an inline
\* definition is written by writeFootnoteLink where it is referenced.
C3_FootnoteSection ==
    /\ last.op = "after" =>
           LET fs == last.arg.Footnotes
           IN  /\ ~panicked
               /\ AppendedOnly
               /\ Appended =
                    IF fs.Definitions = <<>> THEN <<>>
                    ELSE <<"*",SP>> \o fs.Title \o <<NL>>
                             \o FootnoteSection(fs.Definitions, Receiver)
    /\ (LastIs("FootnoteLink") /\ ~panicked) =>
           LET l == last.arg[1]
           IN  /\ AppendedOnly
               /\ Appended =
                    <<"[","f","n",":">> \o l.Name
                    \o (IF l.Definition # <<>>
                        THEN <<":">> \o Rendered(l.Definition[1].Children[1].Children,
                                                 Receiver)
                        ELSE <<>>)
                    \o <<"]">>

\* the section was written for a table that holds an inline definition
\* between two block definitions
C3_Witness ==
    /\ last.op = "after"
    /\ Len(last.arg.Footnotes.Definitions) = 3
    /\ last.arg.Footnotes.Definitions[2].Inline
    /\ Receiver.buf # <<>>

----------------------------------------------------------------------------
(* C4 *)

\* the variants of the data model, and the emphasis kinds of the border table
KnownTypes ==
    { "Comment", "Keyword", "NodeWithMeta", "Headline", "Block",
      "FootnoteDefinition", "List", "ListItem", "Table", "TableHeader",
      "TableRow", "TableSeparator", "Paragraph", "HorizontalRule", "Text",
      "Emphasis", "LineBreak", "ExplicitLineBreak", "RegularLink",
      "FootnoteLink" }

KnownKinds == { "_", "*", "/", "+", "~", "=", "_{}", "^{}" }

\* a non-nil node outside the known variants, or an emphasis of unknown kind
Fatal(n) ==
    \/ n.type \notin KnownTypes \cup {"nil"}
    \/ n.type = "Emphasis" /\ n.Kind \notin KnownKinds

\* C4: writeNodes aborts on a non-nil node of unknown variant and on an
\* emphasis of unknown kind, writing neither it nor any node after it; a nil
\* node appends nothing and the next node is rendered.
C4_UnknownAbortsNilSkipped ==
    last.op = "writeNodes" =>
        LET n == last.arg[1]
        IN  /\ Fatal(n) => panicked /\ writers = last.pre
            /\ n.type = "nil" =>
                   /\ AppendedOnly
                   /\ Appended = Rendered(Tail(last.arg), Receiver)
                   /\ Len(last.arg) = 2 => (Fatal(last.arg[2]) <=> panicked)
            /\ (n.type = "Paragraph" /\ n.Children # <<>>) =>
                   /\ Fatal(n.Children[1]) => panicked /\ writers = last.pre
                   /\ n.Children[1].type = "nil" =>
                          /\ ~panicked
                          /\ Appended = Rendered(Tail(n.Children), Receiver)
                                            \o <<NL>>

\* a node of unknown variant stood before a text node and the render aborted
C4_Witness ==
    /\ last.op = "writeNodes" /\ Len(last.arg) = 2
    /\ last.arg[1].type \notin KnownTypes \cup {"nil"}
    /\ last.arg[2].type = "Text"
    /\ panicked
    /\ Receiver.buf # <<>>

----------------------------------------------------------------------------
(* C5 *)

RECURSIVE WellFormed(_)

AllWellFormed(ns) == \A i \in 1..Len(ns) : WellFormed(ns[i])

\* the input contract: known variants and emphasis kinds, one Text child in
\* every raw block, and a Paragraph as the first child, if there is one, of
\* the definition a footnote link carries
WellFormed(n) ==
    CASE n.type \in {"Text", "LineBreak", "ExplicitLineBreak", "Keyword",
                     "Comment", "HorizontalRule", "TableSeparator", "nil"}
            -> TRUE
      [] n.type = "Emphasis" -> n.Kind \in KnownKinds /\ AllWellFormed(n.Content)
      [] n.type = "RegularLink" ->
            n.Description = <<>> \/ AllWellFormed(n.Description[1])
      [] n.type = "FootnoteLink" ->
            \/ n.Definition = <<>>
            \/ LET d == n.Definition[1]
               IN  /\ d.Children = <<>> \/ d.Children[1].type = "Paragraph"
                   /\ AllWellFormed(d.Children)
      [] n.type \in {"Paragraph", "FootnoteDefinition", "ListItem"} ->
            AllWellFormed(n.Children)
      [] n.type = "Headline" -> AllWellFormed(n.Title) /\ AllWellFormed(n.Children)
      [] n.type = "Block" ->
            /\ isRawTextBlock(n.Name) =>
                   Len(n.Children) = 1 /\ n.Children[1].type = "Text"
            /\ AllWellFormed(n.Children)
      [] n.type = "List" -> AllWellFormed(n.Items)
      [] n.type \in {"TableRow", "TableHeader"} ->
            /\ \A i \in 1..Len(n.Columns) : AllWellFormed(n.Columns[i])
            /\ n.type = "TableHeader" => WellFormed(n.Separator)
      [] n.type = "Table" -> WellFormed(n.Header) /\ AllWellFormed(n.Rows)
      [] n.type = "NodeWithMeta" ->
            /\ \A i \in 1..Len(n.Meta.Caption) : AllWellFormed(n.Meta.Caption[i])
            /\ WellFormed(n.Node)
      [] OTHER -> FALSE

\* C5: the render of a tree that satisfies the input contract never aborts
\* (a footnote link whose definition has no children included).
C5_ContractNeverAborts ==
    (last.op = "writeNodes" /\ AllWellFormed(last.arg)) => ~panicked

----------------------------------------------------------------------------
(* C8 *)

\* C8: emptyClone yields a new writer with an empty buffer and its parent's
\* indentation prefix and tags column; whatever is then written to the clone
\* (or to any writer) leaves the buffer of every other writer as it was; the
\* clone's text reaches the parent only when the parent appends the clone's
\* string itself.
C8_EmptyCloneIsolated ==
    /\ last.op = "emptyClone" =>
           LET clone == writers[Len(writers)]
           IN  /\ Len(writers) = Len(last.pre) + 1
               /\ SubSeq(writers, 1, Len(last.pre)) = last.pre
               /\ clone.buf = <<>>
               /\ clone.indent = Receiver.indent
               /\ clone.TagsColumn = Receiver.TagsColumn
    /\ last.op \in {"writeNodes", "writeListItem:206"} =>
           \A i \in DOMAIN last.pre :
               (i # last.w \/ last.op = "writeListItem:206")
                   => writers[i].buf = last.pre[i].buf
    /\ last.op = "writeListItem:208" =>
           LET clone == last.pre[last.arg.liWriter]
           IN  /\ writers[last.w].buf =
                      Receiver.buf \o TrimPrefix(clone.buf, clone.indent)
               /\ \A i \in DOMAIN last.pre :
                      i # last.w => writers[i] = last.pre[i]

\* nodes were written to the clone of an open list item whose parent holds
\* text of its own
C8_Witness ==
    /\ stack # <<>>
    /\ last.op = "writeNodes"
    /\ last.w = stack[Len(stack)].liWriter
    /\ writers[last.w].buf # <<>>
    /\ writers[stack[Len(stack)].w].buf # <<>>

----------------------------------------------------------------------------
(* C10 *)

\* C10: after writeNodes returns normally, every writer that existed before
\* the call, the receiver first of all, has the indentation prefix and tags
\* column it had and a buffer that starts with what it held; only writers
\* made during the call have another prefix, the receiver's extended by
\* spaces as writeListItem sets it on its clone.
C10_WriteNodesFrame ==
    (last.op = "writeNodes" /\ ~panicked) =>
        /\ writers[last.w].indent = Receiver.indent
        /\ writers[last.w].TagsColumn = Receiver.TagsColumn
        /\ HasPrefix(writers[last.w].buf, Receiver.buf)
        /\ \A i \in DOMAIN last.pre :
               /\ writers[i].indent = last.pre[i].indent
               /\ writers[i].TagsColumn = last.pre[i].TagsColumn
               /\ HasPrefix(writers[i].buf, last.pre[i].buf)
        /\ \A i \in DOMAIN writers \ DOMAIN last.pre :
               /\ writers[i].TagsColumn = Receiver.TagsColumn
               /\ HasPrefix(writers[i].indent, Receiver.indent)
               /\ \A k \in 1..Len(writers[i].indent) :
                      k > Len(Receiver.indent) => writers[i].indent[k] = SP

\* a list item was written whole into a writer that already held text, and
\* its clone has a longer prefix than the receiver
C10_Witness ==
    /\ LastIs("ListItem") /\ ~panicked
    /\ Receiver.buf # <<>>
    /\ \E i \in DOMAIN writers \ DOMAIN last.pre :
           Len(writers[i].indent) > Len(Receiver.indent)

----------------------------------------------------------------------------
(* C2 *)

\* the lines of s: its pieces between newlines, without the empty piece that
\* follows a final newline
Lines(s) ==
    LET pieces == Split(s, NL)
    IN  IF pieces[Len(pieces)] = <<>> THEN SubSeq(pieces, 1, Len(pieces) - 1)
        ELSE pieces

\* C2: writeListItem appends p + bullet + one space and then the children
\* rendered with prefix p + (len(bullet)+1) spaces, one leading occurrence of
\* that prefix removed; every line of the item after the first starts with
\* p + (len(bullet)+1) spaces.
C2_ListItemLines ==
    (LastIs("ListItem") /\ ~panicked) =>
        LET li     == last.arg[1]
            prefix == Receiver.indent \o Repeat(<<SP>>, Len(li.Bullet) + 1)
        IN  /\ AppendedOnly
            /\ Appended = Receiver.indent \o li.Bullet \o <<SP>>
                   \o TrimPrefix(Rendered(li.Children,
                                          [Receiver EXCEPT !.indent = prefix]),
                                 prefix)
            /\ \A i \in 2..Len(Lines(Appended)) :
                   HasPrefix(Lines(Appended)[i], prefix)

====
